---- MODULE Spec2Model ----
(***************************************************************************)
(* Model of the swarm Manager (cluster lifecycle coordinator): manager     *)
(* failover (ensureManager), CreateSwarm, UpdateSwarm and DrainNodes,      *)
(* running against a transport (Switcher + Runner) whose switches and      *)
(* commands may fail.                                                      *)
(***************************************************************************)
EXTENDS Integers, Sequences, FiniteSets, TLC

\* ---------------------------------------------------------------- bounds
MaxManagers == 5
MaxWorkers == 2
MaxRemote == 2
MaxDrainNodes == 2
MaxQueryTicks == 1
MaxCmdDur == 1
MaxLatePolls == 2

\* ------------------------------------------------------- program constants
managerToken == "manager"
workerToken == "worker"
ManagerRole == "manager"
WorkerRole == "worker"
\* drainTimeout = time.Minute * 10, in seconds
drainTimeout == 600
\* time.NewTicker(time.Second * 5), in seconds
pollInterval == 5

VARIABLES
    op,              \* operation invoked on the Manager ("none" before the call)
    pc,              \* position inside the running operation
    vms,             \* the VMNodes argument of CreateSwarm / UpdateSwarm
    target,          \* node the Switcher currently points at
    member,          \* environment: role of every machine in the cluster
    remoteManagers,  \* environment: Swarm.RemoteManagers reported by cluster nodes
    calls,           \* transport stub: every Switch and every command, in order
    candidates,      \* ensureManager: outcome of each loop iteration, in order
    result,          \* "" while running, "ok", or the error returned
    manager,         \* the randomly picked manager (leader / join target)
    tokenM,          \* local managerToken of CreateSwarm / UpdateSwarm
    tokenW,          \* local workerToken of CreateSwarm / UpdateSwarm
    stage,           \* "leader", "managers" or "workers" loop
    queue,           \* nodes of the current loop still to be processed
    roster,          \* currentNodes of UpdateSwarm (hostnames of GetNodes)
    nodes,           \* the argument of DrainNodes
    di,              \* index in nodes of the node being drained
    clock,           \* time.Now().Sub(startedAt) of the running drainNode, seconds
    tickerStart,     \* clock value at which ctx and ticker were created
    nextTick,        \* clock value at which the ticker fires next
    tickReady,       \* ticker.C holds a tick (buffer of one)
    ctxDone,         \* ctx.Done() is closed
    polls,           \* task queries issued for the node being drained
    firstPollAt,     \* clock value of the first task query (-1: none yet)
    lastPollAt,      \* clock value of the latest task query (-1: none yet)
    queryAge,        \* timer events that fired while the task query is in flight
    anyFailed,       \* some task query of this node failed
    anySlow,         \* some task query of this node was in flight during a timer event
    lastAnswer,      \* outcome of the latest task query
    reported         \* elapsed reported by drainNode on return (-1: not returned)

envVars == <<member, remoteManagers>>
swarmVars == <<vms, manager, tokenM, tokenW, stage, queue, roster>>
drainVars == <<nodes, di, clock, tickerStart, nextTick, tickReady, ctxDone, polls,
               firstPollAt, lastPollAt, queryAge, anyFailed, anySlow, lastAnswer,
               reported>>
vars == <<op, pc, target, calls, candidates, result, envVars, swarmVars, drainVars>>

\* ------------------------------------------------------------- the catalog
\* Machines the manifests are drawn from: managers 1..MaxManagers and
\* workers 1..MaxWorkers.  Odd-numbered machines declare a label.
Machines == {<<ManagerRole, k>> : k \in 1..MaxManagers}
            \cup {<<WorkerRole, j>> : j \in 1..MaxWorkers}

LabelsTagOf(k) == IF k % 2 = 1 THEN <<<<"zone", "a">>>> ELSE <<>>

\* VMNode: pubk # k gives a manifest entry that shares a public address
VMNode(role, k, pubk) ==
    [Hostname |-> <<role, k>>, PublicAddress |-> <<role, pubk>>,
     PrivateAddress |-> <<role, k>>, Role |-> role, LabelsTag |-> LabelsTagOf(k)]

NoNode == [Hostname |-> <<>>, PublicAddress |-> <<>>, PrivateAddress |-> <<>>,
           Role |-> "", LabelsTag |-> <<>>]

ManagerVMs(m, dup) ==
    [k \in 1..m |-> VMNode(ManagerRole, k, IF dup /\ k = m /\ m > 1 THEN 1 ELSE k)]

WorkerVMs(w) == [j \in 1..w |-> VMNode(WorkerRole, j, j)]

Manifest(m, w, workersFirst, dup) ==
    IF workersFirst THEN WorkerVMs(w) \o ManagerVMs(m, dup)
    ELSE ManagerVMs(m, dup) \o WorkerVMs(w)

Manifests(dups) ==
    {Manifest(m, w, wf, dup) : m \in 0..MaxManagers, w \in 0..MaxWorkers,
                               wf \in BOOLEAN, dup \in dups}

\* environment: the first r managers and the first s workers form a cluster
Cluster(r, s) ==
    [a \in Machines |->
        IF a[1] = ManagerRole /\ a[2] <= r THEN "manager"
        ELSE IF a[1] = WorkerRole /\ a[2] <= s THEN "worker"
        ELSE "none"]

\* remote manager addresses as token sequences: host, colon, port
Colon == <<":">>
HostPort(h) == <<h, Colon, <<"2377">>>>
RemoteAddrs == {HostPort(<<ManagerRole, 1>>), HostPort(<<ManagerRole, 2>>),
                HostPort(<<WorkerRole, 1>>), <<<<ManagerRole, 1>>>>}

RECURSIVE SeqsUpTo(_, _)
SeqsUpTo(S, n) ==
    IF n = 0 THEN {<<>>}
    ELSE LET shorter == SeqsUpTo(S, n - 1)
         IN  shorter \cup {Append(q, x) : q \in {p \in shorter : Len(p) = n - 1}, x \in S}

\* ----------------------------------------------------------------- helpers
FilterByTag(vs, role) == SelectSeq(vs, LAMBDA v : v.Role = role)

\* ParseLabels: key -> values of the label tag
ParseLabels(tag) ==
    [key \in {tag[i][1] : i \in 1..Len(tag)} |->
        {tag[i][2] : i \in {j \in 1..Len(tag) : tag[j][1] = key}}]

\* net.SplitHostPort: the port follows the last colon; a colon left in the
\* host part is "too many colons", no colon at all is "missing port"
SplitHostPort(addr) ==
    LET colons == {i \in 1..Len(addr) : addr[i] = Colon}
    IN  IF colons = {} THEN [err |-> TRUE, host |-> <<>>]
        ELSE LET last == CHOOSE i \in colons : \A j \in colons : j <= i
                 hostPart == SubSeq(addr, 1, last - 1)
             IN  IF \E i \in 1..Len(hostPart) : hostPart[i] = Colon
                 THEN [err |-> TRUE, host |-> <<>>]
                 ELSE [err |-> FALSE,
                       host |-> IF Len(hostPart) = 1 THEN hostPart[1] ELSE hostPart]

\* transport stub record
Call(kind, on, arg, ok) == [kind |-> kind, on |-> on, arg |-> arg, ok |-> ok]

\* Switcher.Switch can only succeed for an address that names a machine
SwitchOutcomes(addr) == IF addr \in Machines THEN BOOLEAN ELSE {FALSE}

\* docker info on machine t
GetInfo(t) ==
    [ControlAvailable |-> member[t] = "manager",
     Swarm_Cluster_ID |-> IF member[t] = "none" THEN "" ELSE "cluster1",
     Swarm_NodeID |-> t,
     Swarm_RemoteManagers |-> IF member[t] = "none" THEN <<>> ELSE remoteManagers]

IsManager(info) == info.ControlAvailable

\* docker swarm join-token -q <type>
JoinToken(type) == <<"SWMTKN", type>>

\* mutant: any quorum of at least 3 managers is accepted
ValidQuorumAtLeast3(n) == n >= 3

\* len(managers) == 3 || len(managers) == 5
ValidQuorum(n) == n = 3 \/ n = 5

\* mutant: the loop does not return at the first accepted switch but goes on
\* to the end of the list
RECURSIVE TryRemoteManagersNoReturn(_, _, _, _)
TryRemoteManagersNoReturn(list, sw, i, t) ==
    IF i > Len(list)
    THEN [err |-> "NoSuitableManager", target |-> t, calls |-> <<>>, candidates |-> <<>>]
    ELSE LET sp == SplitHostPort(list[i])
             cur == IF ~sp.err /\ sw[i] THEN sp.host ELSE t
             rest == TryRemoteManagersNoReturn(list, sw, i + 1, cur)
         IN  IF sp.err
             THEN [rest EXCEPT !.candidates = <<[index |-> i, outcome |-> "malformed"]>> \o @]
             ELSE IF ~sw[i]
             THEN [rest EXCEPT
                     !.calls = <<Call("switch", t, sp.host, FALSE)>> \o @,
                     !.candidates = <<[index |-> i, outcome |-> "switchFailed"]>> \o @]
             ELSE [rest EXCEPT
                     !.err = "ok",
                     !.calls = <<Call("switch", t, sp.host, TRUE)>> \o @,
                     !.candidates = <<[index |-> i, outcome |-> "switched"]>> \o @]

\* mutant: a failed switch ends the loop instead of trying the next manager
TryRemoteManagersFailFast(list, sw, i, t) ==
    IF i > Len(list)
    THEN [err |-> "NoSuitableManager", target |-> t, calls |-> <<>>, candidates |-> <<>>]
    ELSE LET sp == SplitHostPort(list[i])
         IN  IF sp.err
             THEN [err |-> "NoSuitableManager", target |-> t, calls |-> <<>>,
                   candidates |-> <<[index |-> i, outcome |-> "malformed"]>>]
             ELSE IF ~sw[i]
             THEN [err |-> "NoSuitableManager", target |-> t,
                   calls |-> <<Call("switch", t, sp.host, FALSE)>>,
                   candidates |-> <<[index |-> i, outcome |-> "switchFailed"]>>]
             ELSE [err |-> "ok", target |-> sp.host,
                   calls |-> <<Call("switch", t, sp.host, TRUE)>>,
                   candidates |-> <<[index |-> i, outcome |-> "switched"]>>]

\* ----------------------------------------------------------- ensureManager
\* the loop over node.Swarm.RemoteManagers from candidate i on; sw[i] is the
\* outcome of the Switch attempted for candidate i
RECURSIVE TryRemoteManagers(_, _, _, _)
TryRemoteManagers(list, sw, i, t) ==
    IF i > Len(list)
    THEN [err |-> "NoSuitableManager", target |-> t, calls |-> <<>>, candidates |-> <<>>]
    ELSE LET sp == SplitHostPort(list[i])
             rest == TryRemoteManagers(list, sw, i + 1, t)
         IN  IF sp.err
             THEN [rest EXCEPT !.candidates = <<[index |-> i, outcome |-> "malformed"]>> \o @]
             ELSE IF ~sw[i]
             THEN [rest EXCEPT
                     !.calls = <<Call("switch", t, sp.host, FALSE)>> \o @,
                     !.candidates = <<[index |-> i, outcome |-> "switchFailed"]>> \o @]
             ELSE [err |-> "ok", target |-> sp.host,
                   calls |-> <<Call("switch", t, sp.host, TRUE)>>,
                   candidates |-> <<[index |-> i, outcome |-> "switched"]>>]

\* mutant: the remote managers are tried without looking at IsManager
ensureManagerAlwaysSwitches(t, infoOk, sw) ==
    IF ~infoOk
    THEN [err |-> "ExecutionError", target |-> t,
          calls |-> <<Call("info", t, <<>>, FALSE)>>, candidates |-> <<>>]
    ELSE LET r == TryRemoteManagers(GetInfo(t).Swarm_RemoteManagers, sw, 1, t)
         IN  [r EXCEPT !.calls = <<Call("info", t, <<>>, TRUE)>> \o @]

ensureManager(t, infoOk, sw) ==
    IF ~infoOk
    THEN [err |-> "ExecutionError", target |-> t,
          calls |-> <<Call("info", t, <<>>, FALSE)>>, candidates |-> <<>>]
    ELSE LET node == GetInfo(t)
         IN  IF ~IsManager(node)
             THEN LET r == TryRemoteManagers(node.Swarm_RemoteManagers, sw, 1, t)
                  IN  [r EXCEPT !.calls = <<Call("info", t, <<>>, TRUE)>> \o @]
             ELSE [err |-> "ok", target |-> t,
                   calls |-> <<Call("info", t, <<>>, TRUE)>>, candidates |-> <<>>]

\* the switch outcomes the environment can produce for the candidates of t
SwitchScripts(t) ==
    LET list == GetInfo(t).Swarm_RemoteManagers
    IN  {sw \in [1..Len(list) -> BOOLEAN] :
            \A i \in 1..Len(list) :
                LET sp == SplitHostPort(list[i])
                IN  IF sp.err THEN ~sw[i] ELSE sw[i] \in SwitchOutcomes(sp.host)}

\* a call of ensureManager from position pc; on success control goes to okPc
EnsureManagerStep(okPc, okResult) ==
    \E infoOk \in BOOLEAN, sw \in SwitchScripts(target) :
        LET r == ensureManager(target, infoOk, sw)
        IN  /\ target' = r.target
            /\ calls' = calls \o r.calls
            /\ candidates' = r.candidates
            /\ IF r.err = "ok"
               THEN pc' = okPc /\ result' = okResult
               ELSE pc' = "done" /\ result' = r.err

\* ensureManager called on its own
EnsureManagerCall ==
    /\ op = "none"
    /\ op' = "ensureManager"
    /\ EnsureManagerStep("done", "ok")
    /\ UNCHANGED <<envVars, swarmVars, drainVars>>

\* ------------------------------------------------- transport primitives
\* Manager.SwitchNode(addr) with outcome ok
SwitchNode(addr, ok) ==
    /\ calls' = Append(calls, Call("switch", target, addr, ok))
    /\ target' = IF ok THEN addr ELSE target

\* Manager.runCmd of one command on the current target with outcome ok
runCmd(kind, arg, ok) ==
    /\ calls' = Append(calls, Call(kind, target, arg, ok))
    /\ target' = target

\* return err to the caller of the operation
\* mutant: the error is recorded but the operation does not return
AbortKeepsGoing(err) == pc' = pc /\ result' = err

\* mutant: the error is recorded and the caller goes on with the next node
AbortSkipsToNext(err) == pc' = "drained" /\ result' = err

Abort(err) == pc' = "done" /\ result' = err

\* ------------------------------------------ node lists of the two loops
\* mutant: the roster is ignored, every desired node counts as new
newNodesIgnoringRoster == vms

newNodes == SelectSeq(vms, LAMBDA vm : vm.Hostname \notin roster)

managersToJoin ==
    IF op = "create" THEN FilterByTag(vms, ManagerRole)
    ELSE FilterByTag(newNodes, ManagerRole)

workersToJoin ==
    IF op = "create" THEN FilterByTag(vms, WorkerRole)
    ELSE FilterByTag(newNodes, WorkerRole)

\* mutant: the leader is not skipped by the manager loop
SkipLeaderNever(q) == q

\* CreateSwarm skips the leader: newManager.PublicAddress == manager.PublicAddress
RECURSIVE SkipLeader(_)
SkipLeader(q) ==
    IF q # <<>> /\ Head(q).PublicAddress = manager.PublicAddress
    THEN SkipLeader(Tail(q))
    ELSE q

\* loop control: the next node to join, or the final switch
RECURSIVE LoopNext(_, _)
LoopNext(st, q) ==
    LET q2 == IF st = "managers" /\ op = "create" THEN SkipLeader(q) ELSE q
    IN  IF q2 # <<>> THEN [stage |-> st, queue |-> q2, pc |-> "joinSwitch"]
        ELSE IF st = "managers" THEN LoopNext("workers", workersToJoin)
        ELSE [stage |-> "workers", queue |-> <<>>, pc |-> "finalSwitch"]

\* control after labelNode returned nil for Head(queue)
AfterLabel ==
    IF stage = "leader"
    THEN pc' = "createRefresh" /\ UNCHANGED <<stage, queue>>
    ELSE LET n == LoopNext(stage, Tail(queue))
         IN  pc' = n.pc /\ stage' = n.stage /\ queue' = n.queue

\* ------------------------------------------------------------ CreateSwarm
CreateSwarm(v) ==
    /\ op = "none"
    /\ op' = "create"
    /\ vms' = v
    /\ LET managers == FilterByTag(v, ManagerRole)
       IN  IF ~ValidQuorum(Len(managers))
           THEN Abort("InvalidQuorumSize") /\ manager' = manager
           ELSE \E randomIndex \in 1..Len(managers) :
                    /\ manager' = managers[randomIndex]
                    /\ pc' = "createSwitch" /\ result' = result
    /\ UNCHANGED <<target, calls, candidates, envVars, tokenM, tokenW, stage, queue,
                   roster, drainVars>>

CreateSwitchLeader ==
    /\ op = "create" /\ pc = "createSwitch"
    /\ \E ok \in SwitchOutcomes(manager.PublicAddress) :
        /\ SwitchNode(manager.PublicAddress, ok)
        /\ IF ok THEN pc' = "createInfo" /\ result' = result
                 ELSE Abort("TransportError")
    /\ UNCHANGED <<op, candidates, envVars, swarmVars, drainVars>>

\* mutant: the cluster identifier of the leader is not looked at
ClusterExistsIgnored(info) == FALSE

\* clusterID != ""
ClusterExists(info) == info.Swarm_Cluster_ID # ""

CreateGetInfo ==
    /\ op = "create" /\ pc = "createInfo"
    /\ \E ok \in BOOLEAN :
        /\ runCmd("info", <<>>, ok)
        /\ IF ~ok THEN Abort("ExecutionError")
           ELSE IF ClusterExists(GetInfo(target)) THEN Abort("ClusterAlreadyExists")
           ELSE pc' = "createInit" /\ result' = result
    /\ UNCHANGED <<op, candidates, envVars, swarmVars, drainVars>>

CreateInit ==
    /\ op = "create" /\ pc = "createInit"
    /\ \E ok \in BOOLEAN :
        /\ runCmd("init", <<manager.PrivateAddress, manager.PrivateAddress>>, ok)
        /\ IF ok
           THEN /\ member' = [member EXCEPT ![target] = "manager"]
                /\ stage' = "leader" /\ queue' = <<manager>>
                /\ pc' = "labelSwitch" /\ result' = result
           ELSE Abort("ExecutionError") /\ UNCHANGED <<member, stage, queue>>
    /\ UNCHANGED <<op, candidates, remoteManagers, vms, manager, tokenM, tokenW, roster,
                   drainVars>>

CreateRefresh ==
    /\ op = "create" /\ pc = "createRefresh"
    /\ \E ok \in BOOLEAN :
        /\ runCmd("info", <<>>, ok)
        /\ IF ok THEN pc' = "tokenManager" /\ result' = result
                 ELSE Abort("ExecutionError")
    /\ UNCHANGED <<op, candidates, envVars, swarmVars, drainVars>>

\* -------------------------------------------------------------- labelNode
LabelSwitch ==
    /\ pc = "labelSwitch"
    /\ \E ok \in SwitchOutcomes(Head(queue).PublicAddress) :
        /\ SwitchNode(Head(queue).PublicAddress, ok)
        /\ IF ok THEN pc' = "labelInfo" /\ result' = result
                 ELSE Abort("TransportError")
    /\ UNCHANGED <<op, candidates, envVars, swarmVars, drainVars>>

LabelInfo ==
    /\ pc = "labelInfo"
    /\ \E ok \in BOOLEAN :
        /\ runCmd("info", <<>>, ok)
        /\ IF ~ok THEN Abort("ExecutionError") /\ UNCHANGED <<stage, queue>>
           ELSE IF DOMAIN ParseLabels(Head(queue).LabelsTag) = {}
           THEN AfterLabel /\ result' = result
           ELSE pc' = "labelUpdate" /\ result' = result /\ UNCHANGED <<stage, queue>>
    /\ UNCHANGED <<op, candidates, envVars, vms, manager, tokenM, tokenW, roster, drainVars>>

LabelUpdate ==
    /\ pc = "labelUpdate"
    /\ \E ok \in BOOLEAN :
        /\ runCmd("update",
                  <<"label-add", ParseLabels(Head(queue).LabelsTag),
                    GetInfo(target).Swarm_NodeID>>, ok)
        /\ IF ok THEN AfterLabel /\ result' = result
                 ELSE Abort("ExecutionError") /\ UNCHANGED <<stage, queue>>
    /\ UNCHANGED <<op, candidates, envVars, vms, manager, tokenM, tokenW, roster, drainVars>>

\* -------------------------------------------------------------- joinSwarm
JoinSwitch ==
    /\ pc = "joinSwitch"
    /\ \E ok \in SwitchOutcomes(Head(queue).PublicAddress) :
        /\ SwitchNode(Head(queue).PublicAddress, ok)
        /\ IF ok THEN pc' = "joinCmd" /\ result' = result
                 ELSE Abort("TransportError")
    /\ UNCHANGED <<op, candidates, envVars, swarmVars, drainVars>>

\* the token handed to joinSwarm by the loop of the current stage
StageToken == IF stage = "managers" THEN tokenM ELSE tokenW

JoinCmd ==
    /\ pc = "joinCmd"
    /\ \E ok \in BOOLEAN :
        /\ runCmd("join",
                  <<Head(queue).PrivateAddress, StageToken, manager.PrivateAddress>>, ok)
        /\ IF ok
           THEN /\ member' = [member EXCEPT ![target] =
                        IF StageToken = JoinToken(managerToken) THEN "manager" ELSE "worker"]
                /\ pc' = "labelSwitch" /\ result' = result
           ELSE Abort("ExecutionError") /\ member' = member
    /\ UNCHANGED <<op, candidates, remoteManagers, swarmVars, drainVars>>

\* ----------------------------------------------- tokens and final switch
TokenManager ==
    /\ pc = "tokenManager"
    /\ \E ok \in BOOLEAN :
        /\ runCmd("token", <<managerToken>>, ok)
        /\ IF ok THEN tokenM' = JoinToken(managerToken) /\ pc' = "tokenWorker"
                      /\ result' = result
                 ELSE Abort("ExecutionError") /\ tokenM' = tokenM
    /\ UNCHANGED <<op, candidates, envVars, vms, manager, tokenW, stage, queue, roster,
                   drainVars>>

TokenWorker ==
    /\ pc = "tokenWorker"
    /\ \E ok \in BOOLEAN :
        /\ runCmd("token", <<workerToken>>, ok)
        /\ IF ok
           THEN LET n == LoopNext("managers", managersToJoin)
                IN  /\ tokenW' = JoinToken(workerToken)
                    /\ pc' = n.pc /\ stage' = n.stage /\ queue' = n.queue
                    /\ result' = result
           ELSE Abort("ExecutionError") /\ UNCHANGED <<tokenW, stage, queue>>
    /\ UNCHANGED <<op, candidates, envVars, vms, manager, tokenM, roster, drainVars>>

FinalSwitch ==
    /\ pc = "finalSwitch"
    /\ \E ok \in SwitchOutcomes(manager.PublicAddress) :
        /\ SwitchNode(manager.PublicAddress, ok)
        /\ IF ok THEN pc' = "done" /\ result' = "ok"
                 ELSE Abort("TransportError")
    /\ UNCHANGED <<op, candidates, envVars, swarmVars, drainVars>>

JoinAndLabel ==
    \/ LabelSwitch \/ LabelInfo \/ LabelUpdate
    \/ JoinSwitch \/ JoinCmd
    \/ TokenManager \/ TokenWorker \/ FinalSwitch

\* ------------------------------------------------------------ UpdateSwarm
\* the call and the ensureManager of GetNodes
UpdateSwarm(v) ==
    /\ op = "none"
    /\ op' = "update"
    /\ vms' = v
    /\ EnsureManagerStep("getNodesList", "")
    /\ UNCHANGED <<envVars, manager, tokenM, tokenW, stage, queue, roster, drainVars>>

\* docker node ls: the hostnames of the machines in the cluster
NodeHostnames == {a \in Machines : member[a] # "none"}

\* the rest of GetNodes, then UpdateSwarm up to its own ensureManager
UpdateListNodes ==
    /\ op = "update" /\ pc = "getNodesList"
    /\ \E ok \in BOOLEAN :
        /\ runCmd("nodes", <<>>, ok)
        /\ IF ~ok THEN Abort("ExecutionError") /\ UNCHANGED <<roster, manager>>
           ELSE /\ roster' = NodeHostnames
                /\ LET managers == FilterByTag(vms, ManagerRole)
                   IN  IF ~ValidQuorum(Len(managers))
                       THEN Abort("InvalidQuorumSize") /\ manager' = manager
                       ELSE \E randomIndex \in 1..Len(managers) :
                                /\ manager' = managers[randomIndex]
                                /\ pc' = "updateEnsure" /\ result' = result
    /\ UNCHANGED <<op, candidates, envVars, vms, tokenM, tokenW, stage, queue, drainVars>>

UpdateEnsureManager ==
    /\ op = "update" /\ pc = "updateEnsure"
    /\ EnsureManagerStep("updateInfo", "")
    /\ UNCHANGED <<op, envVars, swarmVars, drainVars>>

UpdateGetInfo ==
    /\ op = "update" /\ pc = "updateInfo"
    /\ \E ok \in BOOLEAN :
        /\ runCmd("info", <<>>, ok)
        /\ IF ~ok THEN Abort("ExecutionError")
           ELSE IF GetInfo(target).Swarm_Cluster_ID = "" THEN Abort("NoExistingCluster")
           ELSE pc' = "tokenManager" /\ result' = result
    /\ UNCHANGED <<op, candidates, envVars, swarmVars, drainVars>>

\* -------------------------------------------------------------- DrainNodes
\* values set when drainNode is entered for a node
ResetDrainNode ==
    /\ clock' = 0 /\ tickerStart' = 0 /\ nextTick' = 0
    /\ tickReady' = FALSE /\ ctxDone' = FALSE /\ polls' = 0
    /\ firstPollAt' = -1 /\ lastPollAt' = -1 /\ queryAge' = 0
    /\ anyFailed' = FALSE /\ anySlow' = FALSE /\ lastAnswer' = "none"
    /\ reported' = -1

\* the call and its ensureManager
DrainNodes(ns) ==
    /\ op = "none"
    /\ op' = "drain"
    /\ nodes' = ns
    /\ EnsureManagerStep(IF ns = <<>> THEN "done" ELSE "drainCmd",
                         IF ns = <<>> THEN "ok" ELSE "")
    /\ di' = IF pc' = "drainCmd" THEN 1 ELSE 0
    /\ UNCHANGED <<envVars, swarmVars, clock, tickerStart, nextTick, tickReady, ctxDone,
                   polls, firstPollAt, lastPollAt, queryAge, anyFailed, anySlow,
                   lastAnswer, reported>>

\* mutant: the ticker delivers its first tick at once
FirstTickAtOnce(d) == d

\* time.NewTicker created at d: the first tick comes one interval later
FirstTick(d) == d + pollInterval

\* mutant: the context times out after one poll interval
DeadlineAfterOneInterval == tickerStart + pollInterval

\* context.WithTimeout(context.Background(), drainTimeout) at tickerStart
Deadline == tickerStart + drainTimeout

\* drainNode up to the loop: startedAt, the availability command (taking d
\* seconds), then ctx and ticker
DrainCmd ==
    /\ op = "drain" /\ pc = "drainCmd"
    /\ \E ok \in BOOLEAN, d \in 0..MaxCmdDur :
        /\ runCmd("update", <<"availability", "drain", nodes[di]>>, ok)
        /\ clock' = d
        /\ IF ok
           THEN /\ tickerStart' = d /\ nextTick' = FirstTick(d)
                /\ pc' = "select" /\ result' = result
           ELSE Abort("ExecutionError") /\ UNCHANGED <<tickerStart, nextTick>>
    /\ UNCHANGED <<op, candidates, envVars, swarmVars, nodes, di, tickReady, ctxDone,
                   polls, firstPollAt, lastPollAt, queryAge, anyFailed, anySlow,
                   lastAnswer, reported>>

\* time passes until the next timer expires.  The context timer is created
\* just before the ticker, so when both expire at the same clock value a
\* goroutine blocked in select is woken by ctx.Done() alone, while a
\* goroutine busy in getTasks finds both cases ready when it comes back.
\* The goroutine blocked in select with a ready case runs before more time
\* passes; a task query stays in flight for up to MaxQueryTicks expiries.
TimerFires ==
    /\ op = "drain"
    /\ \/ pc = "select" /\ ~tickReady /\ ~ctxDone
       \/ pc = "query" /\ queryAge < MaxQueryTicks
    /\ LET next == IF ~ctxDone /\ Deadline <= nextTick THEN Deadline ELSE nextTick
           ctxFires == ~ctxDone /\ Deadline = next
           tickFires == nextTick = next /\ (pc = "query" \/ ~ctxFires)
       IN  /\ clock' = next
           /\ ctxDone' = (ctxDone \/ ctxFires)
           /\ tickReady' = (tickReady \/ tickFires)
           /\ nextTick' = IF tickFires THEN nextTick + pollInterval ELSE nextTick
    /\ queryAge' = IF pc = "query" THEN queryAge + 1 ELSE queryAge
    /\ anySlow' = (anySlow \/ pc = "query")
    /\ UNCHANGED <<op, pc, target, calls, candidates, result, envVars, swarmVars, nodes,
                   di, tickerStart, polls, firstPollAt, lastPollAt, anyFailed,
                   lastAnswer, reported>>

\* case <-ticker.C: elapsed is taken and getTasks(node) is issued.  With both
\* cases ready select picks either one; the tick is picked at most during
\* MaxLatePolls intervals after the deadline.
SelectTick ==
    /\ op = "drain" /\ pc = "select" /\ tickReady
    /\ ctxDone => clock < Deadline + MaxLatePolls * pollInterval
    /\ tickReady' = FALSE
    /\ polls' = polls + 1
    /\ firstPollAt' = IF polls = 0 THEN clock ELSE firstPollAt
    /\ lastPollAt' = clock
    /\ queryAge' = 0
    /\ pc' = "query"
    /\ UNCHANGED <<op, target, calls, candidates, result, envVars, swarmVars, nodes, di,
                   clock, tickerStart, nextTick, ctxDone, anyFailed, anySlow,
                   lastAnswer, reported>>

\* task rows of docker node ps: the current state of each task
TaskAnswers == SeqsUpTo({"Running", "Shutdown"}, 2)

AllShutdown(tasks) == \A i \in 1..Len(tasks) : tasks[i] = "Shutdown"

\* what the loop does with the outcome of getTasks
PollOutcome(ok, tasks) ==
    IF ~ok THEN "failed"
    ELSE IF AllShutdown(tasks) THEN "shutdown"
    ELSE "running"

\* mutant: a failing task query ends the drain
AfterPollReturnsOnFailure(outcome) ==
    IF outcome = "shutdown" THEN "drained"
    ELSE IF outcome = "failed" THEN "done"
    ELSE "select"

\* mutant: the error of the task query is not looked at, and the empty task
\* list it comes with counts as all shut down
AfterPollDrainedOnFailure(outcome) ==
    IF outcome \in {"shutdown", "failed"} THEN "drained" ELSE "select"

\* mutant: the query is retried at once, without going back to the select
AfterPollRetriesAtOnce(outcome) ==
    IF outcome = "shutdown" THEN "drained" ELSE "query"

\* where the loop goes after a poll: continue on error, return nil when all
\* tasks are shut down, otherwise around the loop again
AfterPoll(outcome) ==
    IF outcome = "shutdown" THEN "drained" ELSE "select"

\* getTasks returns: retry on error, return nil when all tasks are shut
\* down, otherwise keep waiting
QueryReturns ==
    /\ op = "drain" /\ pc = "query"
    /\ \E ok \in BOOLEAN, tasks \in TaskAnswers :
        LET outcome == PollOutcome(ok, tasks)
        IN  /\ lastAnswer' = outcome
            /\ anyFailed' = (anyFailed \/ outcome = "failed")
            /\ pc' = AfterPoll(outcome)
            /\ reported' = IF pc' = "drained" THEN lastPollAt ELSE reported
    /\ UNCHANGED <<op, target, calls, candidates, result, envVars, swarmVars, nodes, di,
                   clock, tickerStart, nextTick, tickReady, ctxDone, polls, firstPollAt,
                   lastPollAt, queryAge, anySlow>>

\* case <-ctx.Done(): the timeout error, returned through DrainNodes
SelectDone ==
    /\ op = "drain" /\ pc = "select" /\ ctxDone
    /\ reported' = clock
    /\ Abort("DrainTimeout")
    /\ UNCHANGED <<op, target, calls, candidates, envVars, swarmVars, nodes, di, clock,
                   tickerStart, nextTick, tickReady, ctxDone, polls, firstPollAt,
                   lastPollAt, queryAge, anyFailed, anySlow, lastAnswer>>

\* drainNode returned nil: DrainNodes goes on with the next node or returns
NextNode ==
    /\ op = "drain" /\ pc = "drained"
    /\ IF di < Len(nodes)
       THEN di' = di + 1 /\ pc' = "drainCmd" /\ result' = result /\ ResetDrainNode
       ELSE /\ pc' = "done" /\ result' = "ok"
            /\ UNCHANGED <<di, clock, tickerStart, nextTick, tickReady, ctxDone, polls,
                           firstPollAt, lastPollAt, queryAge, anyFailed, anySlow,
                           lastAnswer, reported>>
    /\ UNCHANGED <<op, target, calls, candidates, envVars, swarmVars, nodes>>

\* ------------------------------------------------------------------- Init
InitCommon ==
    /\ op = "none" /\ pc = "idle" /\ calls = <<>> /\ candidates = <<>> /\ result = ""
    /\ vms = <<>> /\ manager = NoNode /\ tokenM = <<>> /\ tokenW = <<>>
    /\ stage = "" /\ queue = <<>> /\ roster = {}
    /\ nodes = <<>> /\ di = 0 /\ clock = 0 /\ tickerStart = 0 /\ nextTick = 0
    /\ tickReady = FALSE /\ ctxDone = FALSE /\ polls = 0
    /\ firstPollAt = -1 /\ lastPollAt = -1 /\ queryAge = 0
    /\ anyFailed = FALSE /\ anySlow = FALSE /\ lastAnswer = "none" /\ reported = -1

InitEnsure ==
    /\ InitCommon
    /\ member \in {Cluster(r, s) : r \in 0..MaxManagers, s \in 0..MaxWorkers}
    /\ target \in Machines
    /\ remoteManagers \in SeqsUpTo(RemoteAddrs, MaxRemote)

NextEnsure == EnsureManagerCall

SpecEnsure == InitEnsure /\ [][NextEnsure]_vars

InitCreate ==
    /\ InitCommon
    /\ member \in {Cluster(0, 0), Cluster(1, 0)}
    /\ target \in {<<ManagerRole, 1>>, <<WorkerRole, 1>>}
    /\ remoteManagers = <<>>

NextCreate ==
    \/ \E v \in Manifests(BOOLEAN) : CreateSwarm(v)
    \/ CreateSwitchLeader \/ CreateGetInfo \/ CreateInit \/ CreateRefresh
    \/ JoinAndLabel

SpecCreate == InitCreate /\ [][NextCreate]_vars

InitUpdate ==
    /\ InitCommon
    /\ member \in {Cluster(r, s) : r \in 0..MaxManagers, s \in 0..MaxWorkers}
    /\ target \in {<<ManagerRole, 1>>, <<WorkerRole, 1>>}
    /\ remoteManagers \in SeqsUpTo({HostPort(<<ManagerRole, 1>>),
                                    HostPort(<<WorkerRole, 1>>)}, 1)

NextUpdate ==
    \/ \E v \in Manifests({FALSE}) : UpdateSwarm(v)
    \/ UpdateListNodes \/ UpdateEnsureManager \/ UpdateGetInfo
    \/ JoinAndLabel

SpecUpdate == InitUpdate /\ [][NextUpdate]_vars

\* CreateSwarm or UpdateSwarm, whichever the caller invokes
InitSwarm == InitCreate \/ InitUpdate

NextSwarm == NextCreate \/ NextUpdate

SpecSwarm == InitSwarm /\ [][NextSwarm]_vars

\* node lists handed to DrainNodes
DrainList(n) == [i \in 1..n |-> <<WorkerRole, i>>]

InitDrain ==
    /\ InitCommon
    /\ member = Cluster(3, MaxWorkers)
    /\ target \in {<<ManagerRole, 1>>, <<WorkerRole, 1>>}
    /\ remoteManagers \in SeqsUpTo({HostPort(<<ManagerRole, 1>>)}, 1)

NextDrain ==
    \/ \E n \in 0..MaxDrainNodes : DrainNodes(DrainList(n))
    \/ DrainCmd \/ TimerFires \/ SelectTick \/ QueryReturns \/ SelectDone \/ NextNode

SpecDrain == InitDrain /\ [][NextDrain]_vars

\* every remote command returns, time advances, and the goroutine runs: a
\* blocked select takes a ready case, and since Go picks among ready cases
\* at random, a ctx.Done() that is ready again and again is taken
FairDrain ==
    /\ WF_vars(DrainCmd) /\ WF_vars(QueryReturns)
    /\ WF_vars(TimerFires)
    /\ WF_vars(SelectTick \/ SelectDone) /\ SF_vars(SelectDone)
    /\ WF_vars(NextNode)

SpecDrainFair == SpecDrain /\ FairDrain

\* ================================================================ claims
\* indices of the transport calls of one kind
CallsOf(kind) == {i \in 1..Len(calls) : calls[i].kind = kind}

desiredManagers == FilterByTag(vms, ManagerRole)
desiredWorkers == FilterByTag(vms, WorkerRole)

DistinctPublicAddresses(q) ==
    \A i, j \in 1..Len(q) : i # j => q[i].PublicAddress # q[j].PublicAddress

DeclaresLabels(v) == v.LabelsTag # <<>>

\* join commands advertising the private address of v
JoinsOf(v) == {i \in CallsOf("join") : calls[i].arg[1] = v.PrivateAddress}

\* label updates issued with the public address of v as target
UpdatesOn(v) == {i \in CallsOf("update") : calls[i].on = v.PublicAddress}

\* C1: a CreateSwarm whose manifest has a number of manager-tagged members
\* other than 3 and 5 has returned InvalidQuorumSize and the transport has
\* recorded no switch and no command.
C1_CreateRejectsBadQuorum ==
    (op = "create" /\ Len(desiredManagers) \notin {3, 5})
        => (pc = "done" /\ result = "InvalidQuorumSize" /\ calls = <<>>)

C1_Witness ==
    /\ op = "create" /\ Len(desiredManagers) = 4 /\ Len(desiredWorkers) = 2
    /\ pc = "done" /\ result = "InvalidQuorumSize" /\ calls = <<>>

\* C2: an UpdateSwarm whose manifest has a number of manager-tagged members
\* other than 3 and 5 returns InvalidQuorumSize with no transport invocation
\* recorded.
C2_UpdateRejectsBadQuorumBeforeAnyCall ==
    (op = "update" /\ pc = "done" /\ Len(desiredManagers) \notin {3, 5})
        => (result = "InvalidQuorumSize" /\ calls = <<>>)

\* C3: a successful CreateSwarm on managers with distinct public addresses
\* issued exactly one init (on the leader), one manager-token join per
\* non-leader manager and none for the leader, one worker-token join per
\* worker, one label update per node declaring labels and none for the
\* others, and every manager join before every worker join.
C3_CreateCommandSet ==
    (op = "create" /\ pc = "done" /\ result = "ok"
     /\ DistinctPublicAddresses(desiredManagers))
        => /\ Cardinality(CallsOf("init")) = 1
           /\ \A i \in CallsOf("init") :
                /\ calls[i].on = manager.PublicAddress
                /\ calls[i].arg[1] = manager.PrivateAddress
           /\ Cardinality(CallsOf("join"))
                = Len(desiredManagers) - 1 + Len(desiredWorkers)
           /\ JoinsOf(manager) = {}
           /\ \A k \in 1..Len(desiredManagers) :
                LET v == desiredManagers[k]
                IN  v # manager
                    => /\ Cardinality(JoinsOf(v)) = 1
                       /\ \A i \in JoinsOf(v) :
                            /\ calls[i].arg[2] = JoinToken(managerToken)
                            /\ calls[i].on = v.PublicAddress
           /\ \A k \in 1..Len(desiredWorkers) :
                LET v == desiredWorkers[k]
                IN  /\ Cardinality(JoinsOf(v)) = 1
                    /\ \A i \in JoinsOf(v) :
                            /\ calls[i].arg[2] = JoinToken(workerToken)
                            /\ calls[i].on = v.PublicAddress
           /\ \A k \in 1..Len(vms) :
                Cardinality(UpdatesOn(vms[k])) = IF DeclaresLabels(vms[k]) THEN 1 ELSE 0
           /\ Cardinality(CallsOf("update"))
                = Cardinality({k \in 1..Len(vms) : DeclaresLabels(vms[k])})
           /\ \A i, j \in CallsOf("join") :
                (calls[i].arg[2] = JoinToken(managerToken)
                 /\ calls[j].arg[2] = JoinToken(workerToken)) => i < j

\* the spec's case: 3 managers and 2 workers, workers listed first
C3_Witness ==
    /\ op = "create" /\ pc = "done" /\ result = "ok"
    /\ Len(desiredManagers) = 3 /\ Len(desiredWorkers) = 2
    /\ DistinctPublicAddresses(desiredManagers)
    /\ vms[1].Role = WorkerRole
    /\ Cardinality(CallsOf("join")) = 4
    /\ Cardinality(CallsOf("update")) = 3

\* C4: a successful UpdateSwarm issued one join for each desired member
\* whose hostname is absent from the roster queried at the start (manager
\* token for managers, worker token for workers, managers first) and no join
\* and no label update for a desired member whose hostname is in the roster.
C4_UpdateJoinsOnlyNewNodes ==
    (op = "update" /\ pc = "done" /\ result = "ok")
        => /\ \A k \in 1..Len(vms) :
                LET v == vms[k]
                IN  IF v.Hostname \in roster
                    THEN JoinsOf(v) = {} /\ UpdatesOn(v) = {}
                    ELSE /\ Cardinality(JoinsOf(v)) = 1
                         /\ \A i \in JoinsOf(v) :
                              /\ calls[i].on = v.PublicAddress
                              /\ calls[i].arg[2] =
                                    IF v.Role = ManagerRole THEN JoinToken(managerToken)
                                    ELSE JoinToken(workerToken)
           /\ Cardinality(CallsOf("join"))
                = Cardinality({k \in 1..Len(vms) : vms[k].Hostname \notin roster})
           /\ \A i, j \in CallsOf("join") :
                (calls[i].arg[2] = JoinToken(managerToken)
                 /\ calls[j].arg[2] = JoinToken(workerToken)) => i < j

\* the spec's case: three hostnames in the roster, a fourth (worker) joins
C4_Witness ==
    /\ op = "update" /\ pc = "done" /\ result = "ok"
    /\ Cardinality(roster) = 3 /\ Len(vms) = 4
    /\ Cardinality({k \in 1..Len(vms) : vms[k].Hostname \in roster}) = 3
    /\ Cardinality(CallsOf("join")) = 1
    /\ \A i \in CallsOf("join") : calls[i].arg[2] = JoinToken(workerToken)

\* ensureManager called on its own has returned after an answered info query
EnsureReturned ==
    op = "ensureManager" /\ pc = "done" /\ calls # <<>> /\ calls[1].ok

\* the target ensureManager started from, and what it reported
InitialTarget == calls[1].on
ReportedManagers == GetInfo(InitialTarget).Swarm_RemoteManagers

\* the switches recorded by the transport, in order
SwitchCalls == SelectSeq(calls, LAMBDA c : c.kind = "switch")

\* the candidates for which a switch was attempted, in order
TriedCandidates == SelectSeq(candidates, LAMBDA c : c.outcome # "malformed")

\* C5: when ensureManager returns without error the current target is an
\* active manager, and every other outcome is NoSuitableManager, whatever
\* remote-manager list the initial target reported.
C5_EnsureManagerPostcondition ==
    EnsureReturned
        => IF result = "ok" THEN member[target] = "manager"
           ELSE result = "NoSuitableManager"

\* C6: from a target that is not an active manager, a successful
\* ensureManager went through the reported addresses in listed order, every
\* candidate before the last one was rejected, the last one is the first
\* whose switch succeeded, it is the current target, and no later candidate
\* was switched to.
C6_FirstAcceptedCandidate ==
    (EnsureReturned /\ member[InitialTarget] # "manager" /\ result = "ok")
        => LET k == Len(candidates)
           IN  /\ k >= 1 /\ k <= Len(ReportedManagers)
               /\ \A j \in 1..k : candidates[j].index = j
               /\ \A j \in 1..(k - 1) : candidates[j].outcome # "switched"
               /\ candidates[k].outcome = "switched"
               /\ target = SplitHostPort(ReportedManagers[k]).host
               /\ Len(SwitchCalls) = Len(TriedCandidates)
               /\ \A j \in 1..Len(SwitchCalls) :
                    /\ SwitchCalls[j].arg
                         = SplitHostPort(ReportedManagers[TriedCandidates[j].index]).host
                    /\ SwitchCalls[j].ok = (TriedCandidates[j].outcome = "switched")

\* the spec's case: list [A, B], the switch to A fails, the switch to B succeeds
C6_Witness ==
    /\ EnsureReturned /\ member[InitialTarget] # "manager" /\ result = "ok"
    /\ Len(ReportedManagers) = 2 /\ ReportedManagers[1] # ReportedManagers[2]
    /\ Len(candidates) = 2
    /\ candidates[1].outcome = "switchFailed" /\ candidates[2].outcome = "switched"
    /\ target = SplitHostPort(ReportedManagers[2]).host
    /\ target # InitialTarget

\* C7: when the info query reports the current target as an active manager,
\* ensureManager succeeds, no switch is recorded and the current target is
\* the one it started from, whatever the remote-manager list.
C7_ActiveManagerNoSwitch ==
    (EnsureReturned /\ member[InitialTarget] = "manager")
        => /\ result = "ok"
           /\ target = InitialTarget
           /\ CallsOf("switch") = {}
           /\ Len(calls) = 1

C7_Witness ==
    /\ EnsureReturned /\ member[InitialTarget] = "manager"
    /\ Len(ReportedManagers) = 2
    /\ SplitHostPort(ReportedManagers[1]).host # InitialTarget
    /\ result = "ok" /\ target = InitialTarget /\ CallsOf("switch") = {}

\* C8: from a target that is not an active manager, ensureManager fails
\* exactly when no candidate accepted the switch, the error is
\* NoSuitableManager for an empty list and for an exhausted list alike, and
\* at that point every candidate of the list was gone through exactly once,
\* with one failed switch for each well-formed address and none for a
\* malformed one.
C8_ExhaustedCandidates ==
    (EnsureReturned /\ member[InitialTarget] # "manager")
        => /\ result \in {"ok", "NoSuitableManager"}
           /\ result = "NoSuitableManager"
                <=> \A j \in 1..Len(candidates) : candidates[j].outcome # "switched"
           /\ result = "NoSuitableManager"
                => /\ Len(candidates) = Len(ReportedManagers)
                   /\ \A j \in 1..Len(candidates) :
                        /\ candidates[j].index = j
                        /\ candidates[j].outcome = "malformed"
                             <=> SplitHostPort(ReportedManagers[j]).err
                   /\ Len(SwitchCalls) = Len(TriedCandidates)
                   /\ \A j \in 1..Len(SwitchCalls) :
                        /\ ~SwitchCalls[j].ok
                        /\ SwitchCalls[j].arg
                             = SplitHostPort(ReportedManagers[TriedCandidates[j].index]).host
                   /\ target = InitialTarget

\* a malformed address and an unreachable one: both rejected, each once
C8_Witness ==
    /\ EnsureReturned /\ member[InitialTarget] # "manager"
    /\ result = "NoSuitableManager"
    /\ Len(ReportedManagers) = 2 /\ Len(candidates) = 2
    /\ candidates[1].outcome = "switchFailed" /\ candidates[2].outcome = "malformed"
    /\ Len(SwitchCalls) = 1

\* a drain whose task queries all answered at once and without error
StubbedTaskSource == ~anyFailed /\ ~anySlow

\* C9: with a task source answering not-all-terminal on polls 1..k-1 and
\* all-terminal on poll k, k intervals fitting before the deadline, the node
\* is drained at poll k: k queries were issued, one per interval, the first
\* one a full interval after the drain command, poll k was reached (a
\* timeout comes only after every poll that fits before the deadline), and
\* the all-terminal answer ends the polling.
C9_DrainedAfterKIntervals ==
    (op = "drain" /\ StubbedTaskSource)
        => /\ polls > 0
                => /\ firstPollAt = tickerStart + pollInterval
                   /\ lastPollAt = tickerStart + polls * pollInterval
                   /\ polls * pollInterval < drainTimeout
           /\ pc = "drained"
                => /\ lastAnswer = "shutdown" /\ polls >= 1
                   /\ reported = tickerStart + polls * pollInterval
                   /\ clock = reported
           /\ lastAnswer = "shutdown" => (pc = "drained" \/ (pc = "done" /\ result = "ok"))
           /\ result = "DrainTimeout"
                => (polls + 1) * pollInterval >= drainTimeout

\* the spec's case: all-terminal on the 3rd poll
C9_Witness ==
    /\ op = "drain" /\ StubbedTaskSource /\ pc = "drained"
    /\ polls = 3 /\ tickerStart = MaxCmdDur
    /\ firstPollAt = tickerStart + pollInterval
    /\ reported = tickerStart + 3 * pollInterval

\* C10: with a task source that never reports all-terminal the drain of the
\* node ends in DrainTimeout, not before the deadline has elapsed, at the
\* deadline when no query delayed the loop, and no task query is issued
\* after the elapsed time the failure reports.
C10_TimeoutWhenNeverTerminal ==
    op = "drain"
        => /\ (pc = "done" /\ di >= 1 /\ lastAnswer \notin {"none", "shutdown"})
                => result = "DrainTimeout"
           /\ result = "DrainTimeout"
                => /\ pc = "done"
                   /\ reported >= tickerStart + drainTimeout
                   /\ lastPollAt <= reported
                   /\ clock = reported
                   /\ ~anySlow => /\ reported = tickerStart + drainTimeout
                                  /\ (polls + 1) * pollInterval = drainTimeout

C10_Witness ==
    /\ op = "drain" /\ pc = "done" /\ result = "DrainTimeout"
    /\ ~anyFailed /\ ~anySlow /\ lastAnswer = "running"
    /\ reported = tickerStart + drainTimeout
    /\ lastPollAt = reported - pollInterval

\* transport calls that change the cluster or fetch a join token
MutatingOrToken == CallsOf("init") \cup CallsOf("join") \cup CallsOf("update")
                   \cup CallsOf("token")

\* C11: when the info query on the leader picked by CreateSwarm reports a
\* non-empty cluster identifier, CreateSwarm has returned
\* ClusterAlreadyExists right after that query, and no init, join, node
\* update or join-token fetch is recorded.
C11_CreateOnExistingCluster ==
    /\ (op = "create" /\ Len(calls) >= 2 /\ calls[1].ok /\ calls[2].ok
        /\ member[manager.PublicAddress] # "none"
        /\ \A i \in CallsOf("init") : ~calls[i].ok)
            => (pc = "done" /\ result = "ClusterAlreadyExists")
    /\ result = "ClusterAlreadyExists"
            => /\ op = "create" /\ pc = "done"
               /\ Len(calls) = 2
               /\ calls[1].kind = "switch" /\ calls[1].arg = manager.PublicAddress
               /\ calls[2].kind = "info" /\ calls[2].on = manager.PublicAddress
               /\ member[manager.PublicAddress] # "none"
               /\ MutatingOrToken = {}

C11_Witness ==
    /\ op = "create" /\ pc = "done" /\ result = "ClusterAlreadyExists"
    /\ Len(desiredManagers) = 3 /\ Len(desiredWorkers) = 2
    /\ member[manager.PublicAddress] = "manager"
    /\ Len(calls) = 2 /\ MutatingOrToken = {}

\* C12: an UpdateSwarm with 3 or 5 desired managers whose initial target
\* answers the info query and belongs to no cluster (empty cluster identifier,
\* not an active manager, no remote managers listed) returns
\* NoExistingCluster, and no join-token fetch, join or node update is
\* recorded.
C12_UpdateWithoutCluster ==
    (op = "update" /\ pc = "done" /\ ValidQuorum(Len(desiredManagers))
     /\ calls[1].kind = "info" /\ calls[1].ok
     /\ GetInfo(InitialTarget).Swarm_Cluster_ID = ""
     /\ ~IsManager(GetInfo(InitialTarget))
     /\ GetInfo(InitialTarget).Swarm_RemoteManagers = <<>>)
        => /\ result = "NoExistingCluster"
           /\ CallsOf("token") \cup CallsOf("join") \cup CallsOf("update") = {}

\* C13: drainNode never reports a node drained once the deadline of that
\* node has fired: whenever the deadline fired before a poll observed all
\* tasks terminal, the node is not reported drained (the outcome is
\* DrainTimeout), also when the tick and the deadline are pending together
\* and when a task query is in flight while the deadline passes.
C13_NoDrainedAfterDeadline ==
    (op = "drain" /\ di >= 1 /\ ctxDone)
        => /\ pc # "drained"
           /\ pc = "done" => result = "DrainTimeout"

\* private addresses of the nodes joined successfully before call i
JoinedBefore(i) == {calls[j].arg[1] : j \in {k \in CallsOf("join") : k < i /\ calls[k].ok}}

\* C14: every join command of UpdateSwarm names as join target the private
\* address of a node that is in the cluster when the join is issued (listed
\* in the roster, or joined earlier in the same invocation), and never the
\* address of the joining node itself.
C14_JoinTargetIsMember ==
    op = "update"
        => \A i \in CallsOf("join") :
              /\ calls[i].arg[3] # calls[i].arg[1]
              /\ calls[i].arg[3] \in roster \cup JoinedBefore(i)

\* C15: every node-update command is issued while the current target is an
\* active manager of the cluster, where a node joined with the worker token
\* is not an active manager; so no label update runs with a freshly joined
\* worker as the current target.
C15_UpdatesRunOnManagers ==
    \A i \in CallsOf("update") :
        /\ member[calls[i].on] = "manager"
        /\ IsManager(GetInfo(calls[i].on))

\* a switch tried by ensureManager, whose failure moves on to the next
\* candidate: in UpdateSwarm these are the switches before the token fetches
EnsureManagerSwitch(i) ==
    /\ op = "update" /\ calls[i].kind = "switch"
    /\ \A j \in CallsOf("token") : i < j

\* the nodes the two loops have not reached yet
NotReachedYet ==
    {Tail(queue)[k].PrivateAddress : k \in 1..(Len(queue) - 1)}
        \cup (IF stage = "managers"
              THEN {workersToJoin[k].PrivateAddress : k \in 1..Len(workersToJoin)}
              ELSE {})

\* C16: in CreateSwarm and UpdateSwarm the first failing switch or command of
\* a join or label step is the last transport call of the operation, which
\* has returned an error; no node after the failing one was joined, no
\* leave or rollback was issued, and every node joined before is still in
\* the cluster.
C16_FirstFailureAborts ==
    op \in {"create", "update"}
        => /\ \A i \in 1..Len(calls) :
                (~calls[i].ok /\ ~EnsureManagerSwitch(i))
                    => /\ i = Len(calls)
                       /\ pc = "done"
                       /\ result \in {"TransportError", "ExecutionError"}
           /\ (pc = "done" /\ result \in {"TransportError", "ExecutionError"}
               /\ stage \in {"managers", "workers"})
                    => \A i \in CallsOf("join") : calls[i].arg[1] \notin NotReachedYet
           /\ \A i \in 1..Len(calls) :
                calls[i].kind \in {"switch", "info", "init", "nodes", "token", "join", "update"}
           /\ \A i \in CallsOf("join") : calls[i].ok => member[calls[i].on] # "none"

C16_Witness ==
    /\ op \in {"create", "update"} /\ pc = "done" /\ result = "ExecutionError"
    /\ stage = "managers" /\ Len(queue) >= 2
    /\ calls[Len(calls)].kind \in {"join", "update"} /\ ~calls[Len(calls)].ok
    /\ \E i \in CallsOf("join") :
          calls[i].ok /\ calls[i].arg[1] # Head(queue).PrivateAddress
                      /\ member[calls[i].on] = "manager"

\* the drain commands recorded so far are those of the first di nodes of the
\* list, in list order; a failure has ended the whole call
DrainCommandsInOrder ==
    op = "drain"
        => LET n == Cardinality(CallsOf("update"))
           IN  /\ n = (IF pc = "drainCmd" THEN di - 1 ELSE di)
               /\ \A k \in 1..n :
                    /\ calls[Len(calls) - n + k].kind = "update"
                    /\ calls[Len(calls) - n + k].arg = <<"availability", "drain", nodes[k]>>
               /\ polls > 0 => n = di
               /\ result \notin {"", "ok"} => pc = "done"
               /\ (pc = "done" /\ di >= 1 /\ result # "ok")
                    => \/ result = "ExecutionError" /\ ~calls[Len(calls)].ok
                       \/ result = "DrainTimeout" /\ ctxDone

\* C17: DrainNodes handles its list one node at a time in list order: the
\* drain command of the next node is issued only after the current node was
\* reported drained, and after the first failure (drain command failure or
\* DrainTimeout) the call has returned with no drain command and no task
\* query for the later nodes.
C17_SequentialDrain ==
    [][/\ DrainCommandsInOrder'
       /\ (di >= 1 /\ di' # di)
            => /\ pc = "drained" /\ lastAnswer = "shutdown" /\ result = ""
               /\ di' = di + 1 /\ pc' = "drainCmd" /\ calls' = calls
       /\ (op = "drain" /\ calls' # calls)
            => /\ pc = "drainCmd"
               /\ Len(calls') = Len(calls) + 1
               /\ calls'[Len(calls')].arg[3] = nodes[di]
       /\ (op = "drain" /\ polls' = polls + 1)
            => result = "" /\ Cardinality(CallsOf("update")) = di]_vars

C17_Witness ==
    /\ op = "drain" /\ pc = "done" /\ result = "DrainTimeout"
    /\ Len(nodes) = 2 /\ di = 1
    /\ Cardinality(CallsOf("update")) = 1

\* C18: a failing task query never ends the drain: after failed queries
\* drainNode is still in its loop, it queries again at the next tick, a later
\* poll that sees all tasks terminal reports the node drained, and
\* DrainTimeout is returned only once the deadline has fired.
C18_FailedQueryKeepsPolling ==
    op = "drain"
        => /\ lastAnswer = "failed"
                => \/ pc \in {"select", "query"} /\ result = ""
                   \/ pc = "done" /\ result = "DrainTimeout" /\ ctxDone
           /\ anyFailed => result \in {"", "ok", "DrainTimeout"}
           /\ (anyFailed /\ ~anySlow /\ polls > 0)
                => lastPollAt = tickerStart + polls * pollInterval
           /\ (anyFailed /\ lastAnswer = "shutdown")
                => \/ pc = "drained" /\ result = "" /\ reported = lastPollAt
                   \/ pc = "done" /\ result = "ok"
           /\ result = "DrainTimeout" => ctxDone

C18_Witness ==
    /\ op = "drain" /\ pc = "drained" /\ anyFailed /\ ~anySlow /\ ~ctxDone
    /\ polls = 3 /\ lastAnswer = "shutdown"
    /\ reported = tickerStart + 3 * pollInterval

\* the moves of drainNode for one node: requested ("drainCmd"), draining
\* ("select", "query"), drained, and the failures, which end the call
DrainMoves ==
    {<<"drainCmd", "select">>, <<"drainCmd", "done">>,
     <<"select", "query">>, <<"select", "done">>,
     <<"query", "select">>, <<"query", "drained">>,
     <<"drained", "drainCmd">>, <<"drained", "done">>}

DrainNodeStates ==
    (op = "drain" /\ di >= 1)
        => /\ (pc \in {"select", "query", "drained"} \/ polls > 0)
                => /\ calls[Len(calls)].kind = "update"
                   /\ calls[Len(calls)].arg = <<"availability", "drain", nodes[di]>>
                   /\ calls[Len(calls)].ok
           /\ (calls[Len(calls)].kind = "update" /\ ~calls[Len(calls)].ok)
                => /\ pc = "done" /\ result = "ExecutionError"
                   /\ polls = 0 /\ lastAnswer = "none"
           /\ pc = "drained" => (lastAnswer = "shutdown" /\ polls >= 1 /\ result = "")
           /\ result = "DrainTimeout" => (pc = "done" /\ ctxDone)

\* C19: each node goes requested -> draining -> drained or timed out: polling
\* starts only after the availability=drain command succeeded, a failing
\* command ends drainNode with no task query, drained is entered only at a
\* poll whose query succeeded with all tasks terminal, and neither drained
\* nor timed out is ever left for more polling of the same node.
C19_DrainStateMachine ==
    [][/\ DrainNodeStates'
       /\ (op = "drain" /\ pc' # pc) => <<pc, pc'>> \in DrainMoves
       /\ (op = "drain" /\ pc = "drainCmd" /\ pc' = "select")
            => (calls'[Len(calls')].ok /\ polls' = 0)
       /\ (op = "drain" /\ pc' = "drained" /\ pc # "drained")
            => (pc = "query" /\ lastAnswer' = "shutdown")
       /\ (op = "drain" /\ pc = "drained")
            => (pc' \in {"drainCmd", "done"} /\ polls' \in {0, polls})
       /\ pc = "done" => pc' = "done"]_vars

C19_Witness ==
    /\ op = "drain" /\ pc = "done" /\ result = "ExecutionError"
    /\ di = 2 /\ polls = 0 /\ lastAnswer = "none"
    /\ calls[Len(calls)].kind = "update" /\ ~calls[Len(calls)].ok
    /\ calls[Len(calls) - 1].kind = "update" /\ calls[Len(calls) - 1].ok

\* C20: when every remote command returns and time advances, a call of
\* DrainNodes returns, and the drain of each node that started polling ends
\* with the node drained or with DrainTimeout.
C20_DrainTerminates ==
    /\ (op = "drain") ~> (pc = "done")
    /\ (op = "drain" /\ pc \in {"select", "query"})
            ~> (pc = "drained" \/ (pc = "done" /\ result = "DrainTimeout"))

C20_Witness ==
    /\ op = "drain" /\ pc = "done" /\ result = "DrainTimeout"
    /\ lastAnswer = "failed" /\ ~anySlow
    /\ polls * pollInterval + pollInterval = drainTimeout
====
